---- MODULE Spec2Model ----
(***************************************************************************)
(* The task manager's services.                                            *)
(*                                                                         *)
(* Gateway (services/gateway/main.py): one inbound request at a time is    *)
(* followed from its arrival through dependency resolution (the bearer     *)
(* credential), the handler's outbound calls and the response.  A handler  *)
(* is cut at its await points: the step that issues an outbound call and   *)
(* the step that resumes with its outcome.  The backends are then the      *)
(* environment: every outbound call is answered by one outcome drawn from  *)
(* the answers an HTTP peer can give (Spec).                               *)
(*                                                                         *)
(* Backends (services/tasks, projects, comments, users): the in-memory     *)
(* stores with their create, update and delete handlers and background     *)
(* notifications, and the users table with concurrent create_user          *)
(* requests (SpecBackend).                                                 *)
(*                                                                         *)
(* Auth (services/auth/main.py): login, and a client that presents the     *)
(* token it was given to the gateway (SpecRoundTrip).                      *)
(***************************************************************************)
EXTENDS Integers, Sequences, FiniteSets, TLC

\* ---------------------------------------------------------------- bounds
\* longest username carried by a token
MaxNameLen == 1
\* longest collection a backend returns
MaxItems == 2
\* largest task id of a comment route
MaxTaskId == 2
\* create requests a backend serves in one behaviour
MaxCreates == 2
\* threads of the users service serving create_user at once
MaxWorkers == 2

\* ------------------------------------------------------- Python values
\* Python values are records tagged with their type, so that None, numbers,
\* lists and dicts can be told apart the way `is None` and len() do.
None == [type |-> "NoneType"]
PyInt(n) == [type |-> "int", value |-> n]
PyStr(s) == [type |-> "str", value |-> s]
PyList(items) == [type |-> "list", items |-> items]
PyDict(d) == [type |-> "dict", items |-> d]

\* the result of a call: a returned value, or a raised exception
Return(v) == [raised |-> FALSE, value |-> v]
Raise(e) == [raised |-> TRUE, exc |-> e]

NoHeaders == [h \in {} |-> ""]
HTTPException(status_code, detail, headers) ==
    [type |-> "HTTPException", status_code |-> status_code,
     detail |-> detail, headers |-> headers]
TypeError == [type |-> "TypeError"]
AttributeError == [type |-> "AttributeError"]

\* ------------------------------------------------------------- strings
\* Strings that the code inspects character by character (the scheme, the
\* token, the username) are sequences of one-character strings.
UpperCase == <<"A","B","C","D","E","F","G","H","I","J","K","L","M",
               "N","O","P","Q","R","S","T","U","V","W","X","Y","Z">>
LowerCase == <<"a","b","c","d","e","f","g","h","i","j","k","l","m",
               "n","o","p","q","r","s","t","u","v","w","x","y","z">>

\* str.lower()
lower(s) ==
    [i \in 1..Len(s) |->
        IF \E k \in 1..Len(UpperCase) : UpperCase[k] = s[i]
        THEN LowerCase[CHOOSE k \in 1..Len(UpperCase) : UpperCase[k] = s[i]]
        ELSE s[i]]

\* str.startswith(prefix)
startswith(s, p) == Len(s) >= Len(p) /\ SubSeq(s, 1, Len(p)) = p

\* s[n:]
slice_from(s, n) == SubSeq(s, n + 1, Len(s))

SeqsUpTo(S, n) == UNION {[1..k -> S] : k \in 0..n}

\* ------------------------------------------------------ service registry
ServiceNames == <<"auth", "users", "projects", "tasks", "comments", "notifications">>

SERVICES ==
    [auth          |-> "http://localhost:8001",
     users         |-> "http://localhost:8002",
     projects      |-> "http://localhost:8003",
     tasks         |-> "http://localhost:8004",
     comments      |-> "http://localhost:8005",
     notifications |-> "http://localhost:8006"]

\* ------------------------------------------------------------ credentials
bearer == <<"b","e","a","r","e","r">>
prefix == <<"t","o","k","e","n","_","f","o","r","_">>

status_HTTP_401_UNAUTHORIZED == 401
status_HTTP_404_NOT_FOUND == 404
status_HTTP_502_BAD_GATEWAY == 502
status_HTTP_503_SERVICE_UNAVAILABLE == 503

WWWAuthenticate == ("WWW-Authenticate" :> "Bearer")

get_current_usernameNoEmptyCheck(credentials) ==
    IF credentials = None \/ lower(credentials.scheme) # bearer
    THEN Raise(HTTPException(status_HTTP_401_UNAUTHORIZED, "Not authenticated", WWWAuthenticate))
    ELSE LET token == credentials.credentials IN
         IF ~startswith(token, prefix)
         THEN Raise(HTTPException(status_HTTP_401_UNAUTHORIZED, "Invalid token format", WWWAuthenticate))
         ELSE Return(slice_from(token, Len(prefix)))

get_current_username(credentials) ==
    IF credentials = None \/ lower(credentials.scheme) # bearer
    THEN Raise(HTTPException(status_HTTP_401_UNAUTHORIZED, "Not authenticated", WWWAuthenticate))
    ELSE LET token == credentials.credentials IN
         IF ~startswith(token, prefix)
         THEN Raise(HTTPException(status_HTTP_401_UNAUTHORIZED, "Invalid token format", WWWAuthenticate))
         ELSE LET username == slice_from(token, Len(prefix)) IN
              IF username = <<>>
              THEN Raise(HTTPException(status_HTTP_401_UNAUTHORIZED,
                                       "Invalid token (empty username)", WWWAuthenticate))
              ELSE Return(username)

\* ------------------------------------------------------- request inputs
NameChars == {"a", "b"}

Schemes == {<<"B","e","a","r","e","r">>, <<"B","E","A","R","E","R">>,
            <<"B","a","s","i","c">>, <<"B","e","a","r">>}
TokenHeads == {prefix, SubSeq(prefix, 1, Len(prefix) - 1),
               <<"t","o","k","e","n","_","f","o","x","_">>, <<>>}
Tokens == {h \o r : h \in TokenHeads, r \in SeqsUpTo(NameChars, MaxNameLen)}
\* what HTTPBearer(auto_error=False) hands to the dependency
Credentials == {None} \cup [scheme : Schemes, credentials : Tokens]

Routes == {"GET /health", "GET /summary", "GET /me", "POST /users",
           "POST /projects", "POST /tasks", "POST /tasks/{task_id}/comments"}
PostRoutes == {"POST /users", "POST /projects", "POST /tasks",
               "POST /tasks/{task_id}/comments"}

\* (POST /users declared without the dependency)
RequiresAuthUsersOpen(r) ==
    r \in {"GET /summary", "GET /me", "POST /projects", "POST /tasks",
           "POST /tasks/{task_id}/comments"}

\* routes declared with Depends(get_current_username)
RequiresAuth(r) ==
    r \in {"GET /summary", "GET /me", "POST /users", "POST /projects", "POST /tasks",
           "POST /tasks/{task_id}/comments"}

Payloads == {PyDict([title |-> "T1"]), PyDict([title |-> "T2", assignee_id |-> 1])}

\* task ids of the comment route
TaskIds == 1..MaxTaskId

\* ----------------------------------------------------- backend outcomes
\* What the network hands back for one outbound call: an exception raised by
\* the client (no response), or a response with its status, text and the
\* result of response.json() (JSONDecodeError when the body is not JSON).
JSONDecodeError == [type |-> "JSONDecodeError"]
ConnectError == [kind |-> "exception", exc |-> "ConnectError"]
ReadTimeout == [kind |-> "exception", exc |-> "ReadTimeout"]
Response(status_code, text, json) ==
    [kind |-> "response", status_code |-> status_code, text |-> text, json |-> json]

\* usernames held by the users backend
StoredNames == {<<c>> : c \in NameChars}
\* the users backend's collections: records with an id and, unless the marker
\* <<>> stands in its place, a username
UserLists ==
    {PyList([i \in 1..Len(s) |->
                IF s[i] = <<>> THEN [id |-> i] ELSE [id |-> i, username |-> s[i]]]) :
        s \in SeqsUpTo(StoredNames \cup {<<>>}, MaxItems)}
\* the projects and tasks backends' collections
ItemLists == {PyList([i \in 1..k |-> [id |-> i]]) : k \in 0..MaxItems}

AbsentOutcomes ==
    {ConnectError, ReadTimeout,
     Response(500, "Internal Server Error", JSONDecodeError),
     Response(404, "{\"detail\":\"Not Found\"}", PyDict([detail |-> "Not Found"])),
     Response(200, "<html>", JSONDecodeError),
     Response(200, "null", None)}

HealthOutcomes(name) ==
    {ConnectError, ReadTimeout,
     Response(500, "Internal Server Error", JSONDecodeError),
     Response(200, "<html>", JSONDecodeError),
     Response(200, "null", None),
     Response(200, "{\"status\":\"ok\"}", PyDict([status |-> "ok", service |-> name]))}

\* answers to GET /users, /projects, /tasks
CollectionOutcomes(name) ==
    AbsentOutcomes
    \cup {Response(200, "5", PyInt(5)),
          Response(200, "\"\"", PyStr("")),
          Response(200, "\"ab\"", PyStr("ab")),
          Response(200, "{\"detail\":\"x\"}", PyDict([detail |-> "x"]))}
    \cup {Response(200, "[...]", l) : l \in (IF name = "users" THEN UserLists ELSE ItemLists)}

\* answers to a forwarded POST
PostStatuses == {200, 201, 400, 404, 500}
PostBodies ==
    {[text |-> "{\"id\":1}", json |-> PyDict([id |-> 1])],
     [text |-> "bad input", json |-> JSONDecodeError],
     [text |-> "{\"detail\":\"Task not found\"}", json |-> PyDict([detail |-> "Task not found"])]}
PostOutcomes ==
    {ConnectError, ReadTimeout}
    \cup {Response(st, b.text, b.json) : st \in PostStatuses, b \in PostBodies}

\* -------------------------------------------------------- outbound client
\* response.raise_for_status(): TRUE when it raises HTTPStatusError
raise_for_status(response) == ~(response.status_code \in 200..299)

\* safe_get(url), given the outcome the network produced for url
safe_get(outcome) ==
    IF outcome.kind = "exception" THEN None
    ELSE IF raise_for_status(outcome) THEN None
    ELSE IF outcome.json = JSONDecodeError THEN None
    ELSE outcome.json

\* f"Error calling {url}: {exc}": the template with the values it embeds
error_calling_detail(url, exc) ==
    [template |-> "Error calling {url}: {exc}", url |-> url, exc |-> exc]

proxy_postTransportAs500(url, payload, outcome) ==
    IF outcome.kind = "exception"
    THEN Raise(HTTPException(500, error_calling_detail(url, outcome.exc), NoHeaders))
    ELSE IF raise_for_status(outcome)
    THEN Raise(HTTPException(outcome.status_code, outcome.text, NoHeaders))
    ELSE IF outcome.json = JSONDecodeError THEN Return(PyDict([status |-> "ok"]))
    ELSE Return(outcome.json)

proxy_postErrorAs502(url, payload, outcome) ==
    IF outcome.kind = "exception" \/ raise_for_status(outcome)
    THEN Raise(HTTPException(status_HTTP_502_BAD_GATEWAY,
                             error_calling_detail(url, outcome.kind), NoHeaders))
    ELSE IF outcome.json = JSONDecodeError THEN Return(PyDict([status |-> "ok"]))
    ELSE Return(outcome.json)

\* proxy_post(url, payload), given the outcome the network produced
proxy_post(url, payload, outcome) ==
    IF outcome.kind = "exception"
    THEN Raise(HTTPException(status_HTTP_502_BAD_GATEWAY,
                             error_calling_detail(url, outcome.exc), NoHeaders))
    ELSE IF raise_for_status(outcome)
    THEN Raise(HTTPException(outcome.status_code, outcome.text, NoHeaders))
    ELSE IF outcome.json = JSONDecodeError THEN Return(PyDict([status |-> "ok"]))
    ELSE Return(outcome.json)

\* len(x)
len(x) ==
    IF x.type = "list" THEN Return(Len(x.items))
    ELSE IF x.type = "dict" THEN Return(Cardinality(DOMAIN x.items))
    ELSE IF x.type = "str" THEN Return(Len(x.value))
    ELSE Raise(TypeError)

\* ------------------------------------------------------------- responses
\* what the framework sends for a handler's return value or exception
JSONResponse(v) == [status_code |-> 200, body |-> v, headers |-> NoHeaders]
ExceptionResponse(e) ==
    IF e.type = "HTTPException"
    THEN [status_code |-> e.status_code, body |-> [detail |-> e.detail], headers |-> e.headers]
    ELSE [status_code |-> 500, body |-> "Internal Server Error", headers |-> NoHeaders]
NoResponse == [status_code |-> 0, body |-> None, headers |-> NoHeaders]

\* ------------------------------------------------------------ handlers
\* statuses[name] = "ok" if data is not None else "unavailable"
health_statusAlwaysOk(data) == "ok"

health_status(data) == IF data # None THEN "ok" ELSE "unavailable"

SummaryResources == <<"users", "projects", "tasks">>

collection_path(name) ==
    CASE name = "users" -> "/users"
      [] name = "projects" -> "/projects"
      [] name = "tasks" -> "/tasks"

count_key(name) ==
    CASE name = "users" -> "users_count"
      [] name = "projects" -> "projects_count"
      [] name = "tasks" -> "tasks_count"

error_key(name) ==
    CASE name = "users" -> "users_error"
      [] name = "projects" -> "projects_error"
      [] name = "tasks" -> "tasks_error"

unavailable_marker(name) ==
    CASE name = "users" -> "users_service_unavailable"
      [] name = "projects" -> "projects_service_unavailable"
      [] name = "tasks" -> "tasks_service_unavailable"

\* the result dict summary starts from
initial_result(username) ==
    [current_user   |-> username,
     users_count    |-> None,
     projects_count |-> None,
     tasks_count    |-> None,
     users_error    |-> None,
     projects_error |-> None,
     tasks_error    |-> None]

summary_slotCountOffByOne(res, name, data) ==
    IF data = None
    THEN Return([res EXCEPT ![error_key(name)] = PyStr(unavailable_marker(name))])
    ELSE LET n == len(data) IN
         IF n.raised THEN Raise(n.exc)
         ELSE Return([res EXCEPT ![count_key(name)] = PyInt(n.value + 1)])

\* one resource's block of summary: the error marker, or the count
summary_slot(res, name, data) ==
    IF data = None
    THEN Return([res EXCEPT ![error_key(name)] = PyStr(unavailable_marker(name))])
    ELSE LET n == len(data) IN
         IF n.raised THEN Raise(n.exc)
         ELSE Return([res EXCEPT ![count_key(name)] = PyInt(n.value)])

\* f"User '{current_username}' not found in users service"
not_found_detail(username) ==
    [template |-> "User '{current_username}' not found in users service",
     current_username |-> username]

\* for user in users_data: if user.get("username") == current_username: return user
RECURSIVE find_user(_, _, _)
find_user(items, i, username) ==
    IF i > Len(items)
    THEN Raise(HTTPException(status_HTTP_404_NOT_FOUND, not_found_detail(username), NoHeaders))
    ELSE IF "username" \in DOMAIN items[i] /\ items[i].username = username
         THEN Return(items[i])
         ELSE find_user(items, i + 1, username)

\* the body of me after the users call has returned users_data
me_body(users_data, username) ==
    IF users_data = None
    THEN Raise(HTTPException(status_HTTP_503_SERVICE_UNAVAILABLE, "Users service unavailable", NoHeaders))
    ELSE IF users_data.type = "list"
    THEN find_user(users_data.items, 1, username)
    ELSE IF users_data.type = "dict"
    THEN (IF DOMAIN users_data.items = {}
          THEN Raise(HTTPException(status_HTTP_404_NOT_FOUND, not_found_detail(username), NoHeaders))
          ELSE Raise(AttributeError))
    ELSE IF users_data.type = "str"
    THEN (IF users_data.value = ""
          THEN Raise(HTTPException(status_HTTP_404_NOT_FOUND, not_found_detail(username), NoHeaders))
          ELSE Raise(AttributeError))
    ELSE Raise(TypeError)

\* str(task_id) inside the f-string, for the one-digit ids of the model
Digits == <<"0", "1", "2", "3", "4", "5", "6", "7", "8", "9">>
str(n) == Digits[n + 1]

\* the url each forwarding route builds
proxy_urlCommentsToTasks(r, tid) ==
    CASE r = "POST /users" -> <<SERVICES["users"], "/users">>
      [] r = "POST /projects" -> <<SERVICES["projects"], "/projects">>
      [] r = "POST /tasks" -> <<SERVICES["tasks"], "/tasks">>
      [] r = "POST /tasks/{task_id}/comments" ->
            <<SERVICES["tasks"], "/tasks/", str(tid), "/comments">>

proxy_url(r, tid) ==
    CASE r = "POST /users" -> <<SERVICES["users"], "/users">>
      [] r = "POST /projects" -> <<SERVICES["projects"], "/projects">>
      [] r = "POST /tasks" -> <<SERVICES["tasks"], "/tasks">>
      [] r = "POST /tasks/{task_id}/comments" ->
            <<SERVICES["comments"], "/tasks/", str(tid), "/comments">>

\* ---------------------------------------------------- in-memory stores
\* Records hold id, project_id, task_id and owner_id as integers; optional
\* fields and the values handed to send_notification are tagged values
\* (None, PyInt, PyStr).  The titles and texts of the source are Cyrillic
\* literals; ASCII stand-ins take their place.
TaskStatus_TODO == PyStr("todo")
TaskStatus_IN_PROGRESS == PyStr("in_progress")
TaskStatus_DONE == PyStr("done")

Task(id, project_id, title, description, status, assignee_id) ==
    [id |-> id, project_id |-> project_id, title |-> title,
     description |-> description, status |-> status, assignee_id |-> assignee_id]

Project(id, name, description, owner_id) ==
    [id |-> id, name |-> name, description |-> description, owner_id |-> owner_id]

Comment(id, task_id, author_id, text) ==
    [id |-> id, task_id |-> task_id, author_id |-> author_id, text |-> text]

\* the module-level lists each service starts with
TASKS_DB_initial ==
    <<Task(1, 1, PyStr("task 1"), PyStr("description 1"), TaskStatus_DONE, PyInt(1)),
      Task(2, 1, PyStr("task 2"), PyStr("description 2"), TaskStatus_IN_PROGRESS, PyInt(1)),
      Task(3, 2, PyStr("task 3"), PyStr("description 3"), TaskStatus_DONE, PyInt(2))>>

PROJECTS_DB_initial ==
    <<Project(1, PyStr("Demo Project"), PyStr("description 1"), 1),
      Project(2, PyStr("project 2"), PyStr("description 2"), 2)>>

COMMENTS_DB_initial ==
    <<Comment(1, 1, PyInt(1), PyStr("comment 1")),
      Comment(2, 2, PyInt(2), PyStr("comment 2"))>>

\* what a backend handler answers
Answer(status_code, body) == [status_code |-> status_code, body |-> body]
NotFound(detail) == Answer(404, [detail |-> detail])

\* max(record.id for record in db) if db else 0
max_id(db) ==
    IF db = <<>> THEN 0
    ELSE CHOOSE m \in {db[i].id : i \in DOMAIN db} :
            \A i \in DOMAIN db : db[i].id <= m

\* the index enumerate(db) stops at for the id, 0 when the loop runs out
index_of(db, id) ==
    IF \E i \in DOMAIN db : db[i].id = id
    THEN CHOOSE i \in DOMAIN db :
            /\ db[i].id = id
            /\ \A j \in 1..(i - 1) : db[j].id # id
    ELSE 0

\* db.pop(index)
pop(db, index) == SubSeq(db, 1, index - 1) \o SubSeq(db, index + 1, Len(db))

\* [record for record in db if record.<field> == value]
RECURSIVE filter_by(_, _, _)
filter_by(db, field, value) ==
    IF db = <<>> THEN <<>>
    ELSE (IF Head(db)[field] = value THEN <<Head(db)>> ELSE <<>>)
            \o filter_by(Tail(db), field, value)

\* f"... {new_task.title}" and f"... {task_id}": the template and its value
task_assigned_message(title) == [template |-> "task assigned: {title}", title |-> title]
comment_added_message(tid) ==
    [template |-> "comment added to task {task_id}", task_id |-> tid]

\* background_tasks.add_task(send_notification, user_id, message)
add_task(user_id, message) == [func |-> "send_notification", user_id |-> user_id,
                               message |-> message]

\* what a handler leaves behind: the store, the answer, and the background
\* tasks it scheduled to run after the answer
Handled(db, answer, scheduled) == [db |-> db, response |-> answer, background |-> scheduled]

\* ---- tasks service
get_task(db, tid) ==
    IF index_of(db, tid) # 0 THEN Answer(200, db[index_of(db, tid)])
    ELSE NotFound("Task not found")

list_tasks_by_project(db, project_id) == Answer(200, filter_by(db, "project_id", project_id))

create_taskIdFromLength(db, task_in) ==
    LET new_task == Task(Len(db) + 1, task_in.project_id, task_in.title,
                         task_in.description, TaskStatus_TODO, task_in.assignee_id)
    IN Handled(Append(db, new_task), Answer(201, new_task),
               IF new_task.assignee_id # None
               THEN <<add_task(new_task.assignee_id, task_assigned_message(new_task.title))>>
               ELSE <<>>)

create_task(db, task_in) ==
    LET new_task == Task(max_id(db) + 1, task_in.project_id, task_in.title,
                         task_in.description, TaskStatus_TODO, task_in.assignee_id)
    IN Handled(Append(db, new_task), Answer(201, new_task),
               IF new_task.assignee_id # None
               THEN <<add_task(new_task.assignee_id, task_assigned_message(new_task.title))>>
               ELSE <<>>)

update_task(db, tid, task_update) ==
    LET index == index_of(db, tid)
        task == db[index]
        updated_task ==
            Task(task.id, task.project_id,
                 IF task_update.title # None THEN task_update.title ELSE task.title,
                 IF task_update.description # None THEN task_update.description
                 ELSE task.description,
                 IF task_update.status # None THEN task_update.status ELSE task.status,
                 IF task_update.assignee_id # None THEN task_update.assignee_id
                 ELSE task.assignee_id)
    IN IF index # 0
       THEN Handled([db EXCEPT ![index] = updated_task], Answer(200, updated_task), <<>>)
       ELSE Handled(db, NotFound("Task not found"), <<>>)

delete_taskPopsLast(db, tid) ==
    IF index_of(db, tid) # 0
    THEN Handled(pop(db, Len(db)), Answer(204, None), <<>>)
    ELSE Handled(db, NotFound("Task not found"), <<>>)

delete_task(db, tid) ==
    IF index_of(db, tid) # 0
    THEN Handled(pop(db, index_of(db, tid)), Answer(204, None), <<>>)
    ELSE Handled(db, NotFound("Task not found"), <<>>)

\* ---- projects service
list_projects(db) == Answer(200, db)

get_project(db, project_id) ==
    IF index_of(db, project_id) # 0 THEN Answer(200, db[index_of(db, project_id)])
    ELSE NotFound("Project not found")

create_project(db, project_in) ==
    LET new_project == Project(max_id(db) + 1, project_in.name, project_in.description,
                               project_in.owner_id)
    IN Handled(Append(db, new_project), Answer(201, new_project), <<>>)

delete_project(db, project_id) ==
    IF index_of(db, project_id) # 0
    THEN Handled(pop(db, index_of(db, project_id)), Answer(204, None), <<>>)
    ELSE Handled(db, NotFound("Project not found"), <<>>)

\* ---- comments service
list_comments_for_task(db, tid) == Answer(200, filter_by(db, "task_id", tid))

create_comment_for_taskNoAppend(db, tid, comment_in) ==
    LET new_comment == Comment(max_id(db) + 1, tid, comment_in.author_id, comment_in.text)
    IN Handled(db, Answer(201, new_comment),
               <<add_task(new_comment.author_id, comment_added_message(tid))>>)

create_comment_for_task(db, tid, comment_in) ==
    LET new_comment == Comment(max_id(db) + 1, tid, comment_in.author_id, comment_in.text)
    IN Handled(Append(db, new_comment), Answer(201, new_comment),
               <<add_task(new_comment.author_id, comment_added_message(tid))>>)

\* ---- send_notification(user_id, message), given the outcome the network
\* produced for the POST to the notifications service: the call it made, if
\* any, and the line it printed; it returns None in every case
NOTIFICATIONS_BASE_URL == "http://localhost:8006"

\* httpx.post(url, json=payload, timeout=2.0): the call on the wire
notify_call(user_id, message) ==
    [method |-> "POST", url |-> <<NOTIFICATIONS_BASE_URL, "/notify">>,
     json |-> [user_id |-> user_id, message |-> message]]

send_notification(user_id, message, outcome) ==
    IF user_id = None
    THEN [call |-> None, outcome |-> None, printed |-> "nothing"]
    ELSE [call |-> notify_call(user_id, message),
          outcome |-> outcome,
          printed |-> IF outcome.kind = "response" /\ ~raise_for_status(outcome)
                      THEN "Notification sent" ELSE "Failed to send notification"]

\* ---- users service (table users, UNIQUE on username and on email)
UserORM(id, username, email) == [id |-> id, username |-> username, email |-> email]

IntegrityError == [type |-> "IntegrityError"]

\* db.query(UserORM).filter((username == ...) | (email == ...)).first()
existing_user(table, user_in) ==
    IF \E i \in DOMAIN table :
          table[i].username = user_in.username \/ table[i].email = user_in.email
    THEN table[CHOOSE i \in DOMAIN table :
                  /\ table[i].username = user_in.username \/ table[i].email = user_in.email
                  /\ \A j \in 1..(i - 1) :
                        ~(table[j].username = user_in.username
                          \/ table[j].email = user_in.email)]
    ELSE None

\* db.add(user); db.commit(): the INSERT, refused by a UNIQUE constraint when
\* a row with the username or the email is there by now
commit_user(table, user_in) ==
    IF existing_user(table, user_in) # None
    THEN [raised |-> TRUE, exc |-> IntegrityError, table |-> table]
    ELSE [raised |-> FALSE, table |-> Append(table,
              UserORM(max_id(table) + 1, user_in.username, user_in.email))]

\* db.refresh(user): the row of user.id as the table holds it
refresh_user(table, user) == table[index_of(table, user.id)]

already_exists == Answer(400, [detail |-> "User with same username or email already exists"])

\* ---- auth service
loginTokenIsUsername(data) == [access_token |-> data.username, token_type |-> "bearer"]

\* token = f"token_for_{data.username}"
login(data) ==
    [access_token |-> <<"t", "o", "k", "e", "n", "_", "f", "o", "r", "_">> \o data.username,
     token_type |-> "bearer"]

\* ------------------------------------------------------------------ state
VARIABLES
    pc,                \* "idle", "depends", "handler", "await", "done"
    route,             \* the route of the request in progress
    credentials,       \* its HTTPAuthorizationCredentials, or None
    payload,           \* its JSON body (POST routes)
    task_id,           \* its path parameter (comment route), else 0
    current_username,  \* the dependency's value once resolved
    calls,             \* the outbound calls issued for the request, in order
    outcomes,          \* the outcome of each completed outbound call
    statuses,          \* gateway_health's dict
    result,            \* summary's dict
    response           \* the response sent

gatewayVars == <<pc, route, credentials, payload, task_id, current_username,
                 calls, outcomes, statuses, result, response>>

\* the backend services are separate processes that share no state with one
\* another: a behaviour follows the gateway alone, or one backend
VARIABLES
    service,           \* the backend followed, "none" for the gateway alone
    TASKS_DB,          \* the list of the tasks service
    PROJECTS_DB,       \* the list of the projects service
    COMMENTS_DB,       \* the list of the comments service
    background,        \* the background tasks scheduled and not yet started
    notifying,         \* the notification calls waiting for their answer
    notification,     \* what the last run of send_notification to end did
    create_log,        \* the answer of every create request, in order
    users_table,       \* the rows of the users table
    workers,           \* the threads serving create_user requests
    login_request,     \* the last LoginRequest the auth service received
    login_response     \* and its LoginResponse

serviceVars == <<service, TASKS_DB, PROJECTS_DB, COMMENTS_DB, background, notifying,
                 notification, create_log, users_table, workers>>

authVars == <<login_request, login_response>>

vars == <<gatewayVars, serviceVars, authVars>>

EmptyDict == [k \in {} |-> None]

InitGateway ==
    /\ pc = "idle"
    /\ route = "none"
    /\ credentials = None
    /\ payload = None
    /\ task_id = 0
    /\ current_username = <<>>
    /\ calls = <<>>
    /\ outcomes = <<>>
    /\ statuses = EmptyDict
    /\ result = EmptyDict
    /\ response = NoResponse

IdleWorker == [pc |-> "idle", user_in |-> None, user |-> None, response |-> Answer(0, None)]

\* every service as it starts
InitServices ==
    /\ TASKS_DB = TASKS_DB_initial
    /\ PROJECTS_DB = PROJECTS_DB_initial
    /\ COMMENTS_DB = COMMENTS_DB_initial
    /\ background = <<>>
    /\ notifying = <<>>
    /\ notification = None
    /\ create_log = <<>>
    /\ users_table = <<>>
    /\ workers = [w \in 1..MaxWorkers |-> IdleWorker]
    /\ login_request = None
    /\ login_response = None

Init ==
    /\ InitGateway
    /\ InitServices
    /\ service = "none"

\* a request arrives
Request(r, c, p, t) ==
    /\ pc = "idle"
    /\ route' = r
    /\ credentials' = c
    /\ payload' = p
    /\ task_id' = t
    /\ pc' = "depends"
    /\ UNCHANGED <<current_username, calls, outcomes, statuses, result, response>>
    /\ UNCHANGED <<serviceVars, authVars>>

\* Depends(get_current_username) is resolved before the handler runs
ResolveDependencies ==
    /\ pc = "depends"
    /\ IF RequiresAuth(route)
       THEN LET r == get_current_username(credentials) IN
            IF r.raised
            THEN /\ response' = ExceptionResponse(r.exc)
                 /\ pc' = "done"
                 /\ UNCHANGED current_username
            ELSE /\ current_username' = r.value
                 /\ pc' = "handler"
                 /\ UNCHANGED response
       ELSE /\ pc' = "handler"
            /\ UNCHANGED <<current_username, response>>
    /\ UNCHANGED <<route, credentials, payload, task_id, calls, outcomes, statuses, result>>
    /\ UNCHANGED <<serviceVars, authVars>>

\* gateway_health up to the next await safe_get(health_url)
HealthCall ==
    /\ pc = "handler"
    /\ route = "GET /health"
    /\ LET name == ServiceNames[Len(calls) + 1] IN
       calls' = Append(calls, [method |-> "GET", url |-> <<SERVICES[name], "/health">>,
                               json |-> None])
    /\ statuses' = IF calls = <<>> THEN ("gateway" :> "ok") ELSE statuses
    /\ pc' = "await"
    /\ UNCHANGED <<route, credentials, payload, task_id, current_username, outcomes,
                   result, response>>
    /\ UNCHANGED <<serviceVars, authVars>>

\* gateway_health resumes with data; after the last service it returns statuses
HealthReturn ==
    /\ pc = "await"
    /\ route = "GET /health"
    /\ LET name == ServiceNames[Len(calls)] IN
       \E o \in HealthOutcomes(name) :
          LET data == safe_get(o)
              st == [k \in DOMAIN statuses \cup {name} |->
                        IF k = name THEN health_status(data) ELSE statuses[k]]
          IN /\ outcomes' = Append(outcomes, o)
             /\ statuses' = st
             /\ IF Len(calls) = Len(ServiceNames)
                THEN response' = JSONResponse(st) /\ pc' = "done"
                ELSE response' = response /\ pc' = "handler"
    /\ UNCHANGED <<route, credentials, payload, task_id, current_username, calls, result>>
    /\ UNCHANGED <<serviceVars, authVars>>

\* summary up to the next await safe_get(...)
SummaryCall ==
    /\ pc = "handler"
    /\ route = "GET /summary"
    /\ LET name == SummaryResources[Len(calls) + 1] IN
       calls' = Append(calls, [method |-> "GET",
                               url |-> <<SERVICES[name], collection_path(name)>>,
                               json |-> None])
    /\ result' = IF calls = <<>> THEN initial_result(current_username) ELSE result
    /\ pc' = "await"
    /\ UNCHANGED <<route, credentials, payload, task_id, current_username, outcomes,
                   statuses, response>>
    /\ UNCHANGED <<serviceVars, authVars>>

\* summary resumes with one resource's data; after tasks it returns result
SummaryReturn ==
    /\ pc = "await"
    /\ route = "GET /summary"
    /\ LET name == SummaryResources[Len(calls)] IN
       \E o \in CollectionOutcomes(name) :
          LET r == summary_slot(result, name, safe_get(o)) IN
          /\ outcomes' = Append(outcomes, o)
          /\ IF r.raised
             THEN /\ response' = ExceptionResponse(r.exc)
                  /\ pc' = "done"
                  /\ UNCHANGED result
             ELSE /\ result' = r.value
                  /\ IF Len(calls) = Len(SummaryResources)
                     THEN response' = JSONResponse(r.value) /\ pc' = "done"
                     ELSE response' = response /\ pc' = "handler"
    /\ UNCHANGED <<route, credentials, payload, task_id, current_username, calls, statuses>>
    /\ UNCHANGED <<serviceVars, authVars>>

\* me up to await safe_get(.../users)
MeCall ==
    /\ pc = "handler"
    /\ route = "GET /me"
    /\ calls' = Append(calls, [method |-> "GET", url |-> <<SERVICES["users"], "/users">>,
                               json |-> None])
    /\ pc' = "await"
    /\ UNCHANGED <<route, credentials, payload, task_id, current_username, outcomes,
                   statuses, result, response>>
    /\ UNCHANGED <<serviceVars, authVars>>

\* me resumes with users_data
MeReturn ==
    /\ pc = "await"
    /\ route = "GET /me"
    /\ \E o \in CollectionOutcomes("users") :
          LET r == me_body(safe_get(o), current_username) IN
          /\ outcomes' = Append(outcomes, o)
          /\ response' = IF r.raised THEN ExceptionResponse(r.exc) ELSE JSONResponse(r.value)
    /\ pc' = "done"
    /\ UNCHANGED <<route, credentials, payload, task_id, current_username, calls,
                   statuses, result>>
    /\ UNCHANGED <<serviceVars, authVars>>

\* a forwarding route up to await client.post(url, json=payload)
ProxyCall ==
    /\ pc = "handler"
    /\ route \in PostRoutes
    /\ calls' = Append(calls, [method |-> "POST", url |-> proxy_url(route, task_id),
                               json |-> payload])
    /\ pc' = "await"
    /\ UNCHANGED <<route, credentials, payload, task_id, current_username, outcomes,
                   statuses, result, response>>
    /\ UNCHANGED <<serviceVars, authVars>>

\* the forwarding route resumes with the backend's answer
ProxyReturn ==
    /\ pc = "await"
    /\ route \in PostRoutes
    /\ \E o \in PostOutcomes :
          LET r == proxy_post(proxy_url(route, task_id), payload, o) IN
          /\ outcomes' = Append(outcomes, o)
          /\ response' = IF r.raised THEN ExceptionResponse(r.exc) ELSE JSONResponse(r.value)
    /\ pc' = "done"
    /\ UNCHANGED <<route, credentials, payload, task_id, current_username, calls,
                   statuses, result>>
    /\ UNCHANGED <<serviceVars, authVars>>

\* the response has been sent and the request's locals are gone: nothing of a
\* request outlives it
Finish ==
    /\ pc = "done"
    /\ pc' = "idle"
    /\ route' = "none"
    /\ credentials' = None
    /\ payload' = None
    /\ task_id' = 0
    /\ current_username' = <<>>
    /\ calls' = <<>>
    /\ outcomes' = <<>>
    /\ statuses' = EmptyDict
    /\ result' = EmptyDict
    /\ response' = NoResponse
    /\ UNCHANGED <<serviceVars, authVars>>

Arrive ==
    \E r \in Routes :
    \E c \in (IF r = "GET /health" THEN {None} ELSE Credentials) :
    \E p \in (IF r \in PostRoutes THEN Payloads ELSE {None}) :
    \E t \in (IF r = "POST /tasks/{task_id}/comments" THEN TaskIds ELSE {0}) :
        Request(r, c, p, t)

Next ==
    \/ Arrive
    \/ ResolveDependencies
    \/ HealthCall
    \/ HealthReturn
    \/ SummaryCall
    \/ SummaryReturn
    \/ MeCall
    \/ MeReturn
    \/ ProxyCall
    \/ ProxyReturn
    \/ Finish

Spec == Init /\ [][Next]_vars

\* ======================================================= backend services
\* requests the backends receive
TaskCreates ==
    {[project_id |-> 1, title |-> PyStr("T1"), description |-> None, assignee_id |-> None],
     [project_id |-> 2, title |-> PyStr("T2"), description |-> None,
      assignee_id |-> PyInt(2)]}

TaskUpdates ==
    {[title |-> None, description |-> None, status |-> TaskStatus_DONE,
      assignee_id |-> None]}

ProjectCreates ==
    {[name |-> PyStr("P1"), description |-> None, owner_id |-> 1],
     [name |-> PyStr("P2"), description |-> PyStr("second"), owner_id |-> 2]}

CommentCreates == {[author_id |-> PyInt(1), text |-> PyStr("C1")]}

\* the ids a request names: every id of the store and one that is not there
RequestIds(db) == 1..(max_id(db) + 1)

\* what the notifications service, or the network, does with POST /notify
NotifyOutcomes ==
    {Response(200, "{\"status\": \"sent\"}", PyDict([status |-> "sent"])),
     Response(500, "Internal Server Error", JSONDecodeError),
     ConnectError, ReadTimeout}

\* the greatest id among the records of a store, 0 when it holds none
GreatestId(db) ==
    LET ids == {db[i].id : i \in DOMAIN db} IN
    IF ids = {} THEN 0 ELSE CHOOSE m \in ids : \A n \in ids : n <= m

\* the log after a create has run: its answer, the greatest id the store held
\* before, and whether the store holds the record answered once the handler
\* is over
Logged(log, before, h) ==
    Append(log, [response |-> h.response,
                 greatest_before |-> GreatestId(before),
                 stored |-> \E i \in DOMAIN h.db : h.db[i] = h.response.body,
                 deleted |-> FALSE])

\* the log after a delete of id has run: answered 204, the records of that id
\* created so far are gone
MarkDeleted(log, h, id) ==
    IF h.response.status_code = 204
    THEN [i \in DOMAIN log |->
            IF log[i].response.body.id = id THEN [log[i] EXCEPT !.deleted = TRUE]
            ELSE log[i]]
    ELSE log

usersVars == <<users_table, workers>>

\* POST /tasks
CreateTask ==
    /\ service = "tasks"
    /\ Len(create_log) < MaxCreates
    /\ \E task_in \in TaskCreates :
          LET h == create_task(TASKS_DB, task_in) IN
          /\ TASKS_DB' = h.db
          /\ background' = background \o h.background
          /\ create_log' = Logged(create_log, TASKS_DB, h)
    /\ UNCHANGED <<service, PROJECTS_DB, COMMENTS_DB, notifying, notification, usersVars,
                   gatewayVars, authVars>>

\* PATCH /tasks/{task_id}
UpdateTask ==
    /\ service = "tasks"
    /\ \E tid \in RequestIds(TASKS_DB), task_update \in TaskUpdates :
          LET h == update_task(TASKS_DB, tid, task_update) IN
          /\ TASKS_DB' = h.db
    /\ UNCHANGED <<service, PROJECTS_DB, COMMENTS_DB, background, notifying, notification,
                   create_log, usersVars, gatewayVars, authVars>>

\* DELETE /tasks/{task_id}
DeleteTask ==
    /\ service = "tasks"
    /\ \E tid \in RequestIds(TASKS_DB) :
          LET h == delete_task(TASKS_DB, tid) IN
          /\ TASKS_DB' = h.db
          /\ create_log' = MarkDeleted(create_log, h, tid)
    /\ UNCHANGED <<service, PROJECTS_DB, COMMENTS_DB, background, notifying, notification,
                   usersVars, gatewayVars, authVars>>

\* POST /projects
CreateProject ==
    /\ service = "projects"
    /\ Len(create_log) < MaxCreates
    /\ \E project_in \in ProjectCreates :
          LET h == create_project(PROJECTS_DB, project_in) IN
          /\ PROJECTS_DB' = h.db
          /\ create_log' = Logged(create_log, PROJECTS_DB, h)
    /\ UNCHANGED <<service, TASKS_DB, COMMENTS_DB, background, notifying, notification,
                   usersVars, gatewayVars, authVars>>

\* DELETE /projects/{project_id}
DeleteProject ==
    /\ service = "projects"
    /\ \E project_id \in RequestIds(PROJECTS_DB) :
          LET h == delete_project(PROJECTS_DB, project_id) IN
          /\ PROJECTS_DB' = h.db
          /\ create_log' = MarkDeleted(create_log, h, project_id)
    /\ UNCHANGED <<service, TASKS_DB, COMMENTS_DB, background, notifying, notification,
                   usersVars, gatewayVars, authVars>>

\* POST /tasks/{task_id}/comments
CreateComment ==
    /\ service = "comments"
    /\ Len(create_log) < MaxCreates
    /\ \E tid \in TaskIds, comment_in \in CommentCreates :
          LET h == create_comment_for_task(COMMENTS_DB, tid, comment_in) IN
          /\ COMMENTS_DB' = h.db
          /\ background' = background \o h.background
          /\ create_log' = Logged(create_log, COMMENTS_DB, h)
    /\ UNCHANGED <<service, TASKS_DB, PROJECTS_DB, notifying, notification, usersVars,
                   gatewayVars, authVars>>

\* s without its k-th element
remove_at(s, k) == SubSeq(s, 1, k - 1) \o SubSeq(s, k + 1, Len(s))

\* a scheduled send_notification starts on a thread of the pool, after the
\* answer of its request: it returns at once for no user, or issues the POST
\* and waits; the tasks of different requests start in any order
NotifyCall ==
    /\ service \in {"tasks", "comments"}
    /\ \E k \in DOMAIN background :
          /\ background' = remove_at(background, k)
          /\ IF background[k].user_id = None
             THEN /\ notification' = send_notification(None, background[k].message, None)
                  /\ UNCHANGED notifying
             ELSE /\ notifying' = Append(notifying, notify_call(background[k].user_id,
                                                                background[k].message))
                  /\ UNCHANGED notification
    /\ UNCHANGED <<service, TASKS_DB, PROJECTS_DB, COMMENTS_DB, create_log, usersVars,
                   gatewayVars, authVars>>

\* one of the waiting calls gets its outcome, and send_notification prints
\* and returns; the calls end in any order
NotifyReturn ==
    /\ service \in {"tasks", "comments"}
    /\ \E k \in DOMAIN notifying, o \in NotifyOutcomes :
          /\ notification' = send_notification(notifying[k].json.user_id,
                                               notifying[k].json.message, o)
          /\ notifying' = remove_at(notifying, k)
    /\ UNCHANGED <<service, TASKS_DB, PROJECTS_DB, COMMENTS_DB, background, create_log,
                   usersVars, gatewayVars, authVars>>

\* ---- users service: create_user is a plain def, so each request runs on a
\* thread of its own, and the threads interleave between the existence query
\* and the commit
UserNames == {"a", "b"}
UserEmails == {"a@x.io", "b@x.io"}
UserCreates == [username : UserNames, email : UserEmails]

storeVars == <<TASKS_DB, PROJECTS_DB, COMMENTS_DB, background, notifying, notification,
               create_log>>

\* create_user up to `if existing`
CreateUserQuery(w) ==
    /\ service = "users"
    /\ workers[w].pc = "idle"
    /\ \E user_in \in UserCreates :
          workers' = [workers EXCEPT ![w] =
              IF existing_user(users_table, user_in) # None
              THEN [pc |-> "done", user_in |-> user_in, user |-> None,
                    response |-> already_exists]
              ELSE [pc |-> "commit", user_in |-> user_in, user |-> None,
                    response |-> Answer(0, None)]]
    /\ UNCHANGED <<service, users_table, storeVars, gatewayVars, authVars>>

\* db.add(user); db.commit(): the row is stored and visible to the other
\* threads, or the constraint refuses it and the exception ends the request
CreateUserCommit(w) ==
    /\ service = "users"
    /\ workers[w].pc = "commit"
    /\ LET r == commit_user(users_table, workers[w].user_in) IN
       /\ users_table' = r.table
       /\ workers' = [workers EXCEPT ![w] =
              IF r.raised
              THEN [@ EXCEPT !.pc = "done",
                             !.response = Answer(500, "Internal Server Error")]
              ELSE [@ EXCEPT !.pc = "refresh", !.user = r.table[Len(r.table)]]]
    /\ UNCHANGED <<service, storeVars, gatewayVars, authVars>>

\* db.refresh(user); return User(id=user.id, ...)
CreateUserRefresh(w) ==
    /\ service = "users"
    /\ workers[w].pc = "refresh"
    /\ workers' = [workers EXCEPT ![w].pc = "done",
                                  ![w].response =
                      Answer(201, refresh_user(users_table, workers[w].user))]
    /\ UNCHANGED <<service, users_table, storeVars, gatewayVars, authVars>>

\* the answer has been sent and the thread is free again
WorkerDone(w) ==
    /\ service = "users"
    /\ workers[w].pc = "done"
    /\ workers' = [workers EXCEPT ![w] = IdleWorker]
    /\ UNCHANGED <<service, users_table, storeVars, gatewayVars, authVars>>

BackendServices == {"tasks", "projects", "comments", "users"}

InitBackend ==
    /\ InitGateway
    /\ InitServices
    /\ service \in BackendServices

NextBackend ==
    \/ CreateTask
    \/ UpdateTask
    \/ DeleteTask
    \/ CreateProject
    \/ DeleteProject
    \/ CreateComment
    \/ NotifyCall
    \/ NotifyReturn
    \/ \E w \in 1..MaxWorkers : CreateUserQuery(w)
    \/ \E w \in 1..MaxWorkers : CreateUserCommit(w)
    \/ \E w \in 1..MaxWorkers : CreateUserRefresh(w)
    \/ \E w \in 1..MaxWorkers : WorkerDone(w)

SpecBackend == InitBackend /\ [][NextBackend]_vars

\* ------------------------------------------- auth service and its client
LoginRequests == [username : SeqsUpTo(NameChars, MaxNameLen), password : {"p", "q"}]

\* POST /login; the client logs in between its requests to the gateway
Login ==
    /\ service = "auth"
    /\ pc = "idle"
    /\ \E data \in LoginRequests :
          /\ login_request' = data
          /\ login_response' = login(data)
    /\ UNCHANGED <<service, storeVars, usersVars, gatewayVars>>

\* the client presents the access_token it was given, as Bearer <access_token>,
\* on a route of the gateway that asks for the caller
PresentToken ==
    /\ service = "auth"
    /\ login_response # None
    /\ \E r \in Routes \ {"GET /health"} :
       \E p \in (IF r \in PostRoutes THEN Payloads ELSE {None}) :
       \E t \in (IF r = "POST /tasks/{task_id}/comments" THEN TaskIds ELSE {0}) :
          Request(r, [scheme |-> <<"B","e","a","r","e","r">>,
                      credentials |-> login_response.access_token], p, t)

InitRoundTrip ==
    /\ InitGateway
    /\ InitServices
    /\ service = "auth"

NextRoundTrip ==
    \/ Login
    \/ PresentToken
    \/ ResolveDependencies
    \/ SummaryCall
    \/ SummaryReturn
    \/ MeCall
    \/ MeReturn
    \/ ProxyCall
    \/ ProxyReturn
    \/ Finish

SpecRoundTrip == InitRoundTrip /\ [][NextRoundTrip]_vars

\* ================================================================ claims
ProtectedRoutes == {"GET /summary", "GET /me", "POST /users", "POST /projects",
                    "POST /tasks", "POST /tasks/{task_id}/comments"}
RegisteredServices == {"auth", "users", "projects", "tasks", "comments", "notifications"}

\* the scheme is "bearer" in any mix of cases
IsBearerScheme(scheme) ==
    /\ Len(scheme) = 6
    /\ \A i \in 1..6 : scheme[i] \in {<<"b","e","a","r","e","r">>[i], <<"B","E","A","R","E","R">>[i]}

\* the token is "token_for_" followed by at least one character
HasSubject(token) ==
    /\ Len(token) > 10
    /\ \A i \in 1..10 : token[i] = <<"t","o","k","e","n","_","f","o","r","_">>[i]

ValidCredential(c) == c # None /\ IsBearerScheme(c.scheme) /\ HasSubject(c.credentials)

\* what follows "token_for_" in the token
Subject(c) == [i \in 1..(Len(c.credentials) - 10) |-> c.credentials[i + 10]]

\* the request was answered 401 with the Bearer challenge
Rejected401 ==
    /\ pc = "done"
    /\ response.status_code = 401
    /\ DOMAIN response.headers = {"WWW-Authenticate"}
    /\ response.headers["WWW-Authenticate"] = "Bearer"

\* C1: on a protected route, once the dependency has been resolved, a valid
\* credential (bearer scheme in any case, token_for_ followed by a non-empty
\* remainder) has given exactly that remainder as the caller identity and was
\* not rejected; every other credential has been answered 401 with the
\* WWW-Authenticate: Bearer challenge and has given no identity.
C1_CredentialAcceptedIffValid ==
    (pc \in {"handler", "await", "done"} /\ route \in ProtectedRoutes) =>
        IF ValidCredential(credentials)
        THEN current_username = Subject(credentials) /\ ~Rejected401
        ELSE Rejected401 /\ current_username = <<>>

C1_Witness ==
    /\ pc = "handler"
    /\ route = "GET /me"
    /\ credentials # None
    /\ credentials.scheme = <<"B","E","A","R","E","R">>
    /\ credentials.credentials = <<"t","o","k","e","n","_","f","o","r","_","b">>
    /\ current_username = <<"b">>

\* C2: on every protected route a request whose credential the dependency
\* rejects never issues an outbound call, and is answered 401.
C2_AuthBeforeOutboundCalls ==
    (route \in ProtectedRoutes /\ get_current_username(credentials).raised) =>
        /\ calls = <<>>
        /\ pc \in {"depends", "done"}
        /\ (pc = "done" => response.status_code = 401)

C2_Witness ==
    /\ pc = "done"
    /\ route = "POST /users"
    /\ credentials # None
    /\ credentials.scheme = <<"B","a","s","i","c">>
    /\ response.status_code = 401
    /\ calls = <<>>

\* the outbound GET produced a value: a 2xx answer whose body is JSON other
\* than null
ReturnedValue(o) ==
    /\ o.kind = "response"
    /\ o.status_code \in 200..299
    /\ o.json # JSONDecodeError
    /\ o.json # None

\* C3: whatever each backend answers, the health map has exactly the keys
\* gateway and the six service names, gateway is ok, and each service is ok
\* exactly when its own health call returned a value, unavailable otherwise;
\* all six calls are made.
C3_HealthMapComplete ==
    (route = "GET /health" /\ pc = "done") =>
        /\ response.status_code = 200
        /\ Len(calls) = 6
        /\ Len(outcomes) = 6
        /\ DOMAIN response.body = {"gateway"} \cup RegisteredServices
        /\ response.body["gateway"] = "ok"
        /\ \A i \in 1..6 :
              /\ calls[i].url = <<SERVICES[ServiceNames[i]], "/health">>
              /\ response.body[ServiceNames[i]] =
                    (IF ReturnedValue(outcomes[i]) THEN "ok" ELSE "unavailable")

C3_Witness ==
    /\ route = "GET /health"
    /\ pc = "done"
    /\ outcomes[1] = ConnectError
    /\ outcomes[2] = ReadTimeout
    /\ ReturnedValue(outcomes[3])
    /\ response.body["auth"] = "unavailable"
    /\ response.body["projects"] = "ok"
    /\ response.body["notifications"] = "ok"

\* C4 (as claimed): in summary, for every resource whose call has completed,
\* the slot of that resource is decided by that call alone: error marker and
\* no count when the call produced no value, a count and no error when it
\* produced one.
C4_SlotsFollowOwnCall ==
    (route = "GET /summary" /\ pc \in {"handler", "done"}) =>
        \A i \in 1..Len(outcomes) :
            LET name == SummaryResources[i] IN
            IF ReturnedValue(outcomes[i])
            THEN result[count_key(name)] # None /\ result[error_key(name)] = None
            ELSE /\ result[error_key(name)] = PyStr(unavailable_marker(name))
                 /\ result[count_key(name)] = None

\* the answer is a 2xx JSON array
ReturnedList(o) == ReturnedValue(o) /\ o.json.type = "list"

\* C5: when the users, projects and tasks backends all answer with a
\* collection, summary answers 200 with each count equal to the length of
\* that backend's collection, the three error fields null and current_user
\* equal to the identity carried by the token.
C5_SummaryCountsAllReachable ==
    (route = "GET /summary" /\ pc = "done" /\ Len(outcomes) = 3
        /\ \A i \in 1..3 : ReturnedList(outcomes[i])) =>
        /\ response.status_code = 200
        /\ response.body["users_count"] = PyInt(Len(outcomes[1].json.items))
        /\ response.body["projects_count"] = PyInt(Len(outcomes[2].json.items))
        /\ response.body["tasks_count"] = PyInt(Len(outcomes[3].json.items))
        /\ response.body["users_error"] = None
        /\ response.body["projects_error"] = None
        /\ response.body["tasks_error"] = None
        /\ response.body["current_user"] = Subject(credentials)

C5_Witness ==
    /\ route = "GET /summary"
    /\ pc = "done"
    /\ Len(outcomes) = 3
    /\ \A i \in 1..3 : ReturnedList(outcomes[i]) /\ Len(outcomes[i].json.items) = i - 1
    /\ response.status_code = 200
    /\ response.body["tasks_count"] = PyInt(2)

\* C6 (as claimed): an authenticated GET /summary is answered 200 whatever
\* the three backends answer.
C6_SummaryAlways200 ==
    (route = "GET /summary" /\ pc = "done" /\ ValidCredential(credentials)) =>
        response.status_code = 200

\* C7 (as claimed): GET /me ends in exactly one of three ways: 503 when the
\* users call produced no value, the first entry named like the caller when
\* the answer holds one, 404 naming the caller otherwise.
C7_MeThreeOutcomes ==
    (route = "GET /me" /\ pc = "done" /\ ValidCredential(credentials)) =>
        LET o == outcomes[1] IN
        \/ ~ReturnedValue(o) /\ response.status_code = 503
        \/ /\ ReturnedValue(o)
           /\ response.status_code = 200
           /\ \E i \in 1..Len(o.json.items) :
                 /\ response.body = o.json.items[i]
                 /\ response.body.username = current_username
                 /\ \A j \in 1..(i - 1) :
                       ~("username" \in DOMAIN o.json.items[j]
                         /\ o.json.items[j].username = current_username)
        \/ /\ ReturnedValue(o)
           /\ response.status_code = 404
           /\ response.body.detail.current_username = current_username

\* the backend answered with an HTTP error status
ErrorAnswer(o) == o.kind = "response" /\ o.status_code \in 400..599

\* C8: when the backend answers a forwarded POST with an error status and a
\* body text, the gateway's error has that status and that text as detail.
C8_UpstreamErrorRelayed ==
    (route \in PostRoutes /\ pc = "done" /\ Len(outcomes) = 1 /\ ErrorAnswer(outcomes[1])) =>
        /\ response.status_code = outcomes[1].status_code
        /\ DOMAIN response.body = {"detail"}
        /\ response.body.detail = outcomes[1].text

C8_Witness ==
    /\ route = "POST /projects"
    /\ pc = "done"
    /\ Len(outcomes) = 1
    /\ outcomes[1] = Response(400, "bad input", JSONDecodeError)
    /\ response.status_code = 400
    /\ response.body.detail = "bad input"

\* C9: when a forwarded POST fails without a response (connection error or
\* timeout), the gateway answers 502 and the detail embeds the url called.
C9_TransportFailureIs502 ==
    (route \in PostRoutes /\ pc = "done" /\ Len(outcomes) = 1
        /\ outcomes[1].kind = "exception") =>
        /\ response.status_code = 502
        /\ DOMAIN response.body = {"detail"}
        /\ response.body.detail.url = calls[1].url
        /\ calls[1].url = proxy_url(route, task_id)

C9_Witness ==
    /\ route = "POST /tasks/{task_id}/comments"
    /\ pc = "done"
    /\ Len(outcomes) = 1
    /\ outcomes[1] = ReadTimeout
    /\ response.status_code = 502

\* C10 (as claimed): the gateway's answer to a forwarded write has the
\* backend's status, and for a successful answer the backend's JSON body.
C10_ForwardMirrorsBackend ==
    (route \in PostRoutes /\ pc = "done" /\ Len(outcomes) = 1
        /\ outcomes[1].kind = "response") =>
        /\ response.status_code = outcomes[1].status_code
        /\ (outcomes[1].status_code \in 200..299 /\ outcomes[1].json # JSONDecodeError
               => response.body = outcomes[1].json)

\* the number of outbound calls the handler of a fan-out route makes
FanOut(r) == IF r = "GET /health" THEN 6 ELSE 3

\* C11 (as claimed): in health and summary every outbound call of the request
\* has been started before any sibling call has completed or timed out.
C11_FanOutConcurrent ==
    (route \in {"GET /health", "GET /summary"} /\ Len(outcomes) > 0) =>
        Len(calls) = FanOut(route)

\* the backend and path a forwarded write is meant for
ForwardTarget(r, t) ==
    CASE r = "POST /users" -> <<"users", <<"/users">>>>
      [] r = "POST /projects" -> <<"projects", <<"/projects">>>>
      [] r = "POST /tasks" -> <<"tasks", <<"/tasks">>>>
      [] r = "POST /tasks/{task_id}/comments" ->
            <<"comments", <<"/tasks/", Digits[t + 1], "/comments">>>>

\* C12: an authenticated forwarded write, once its call is out and until the
\* request is over (whatever the backend answered, failures included), has
\* issued exactly one outbound call: a POST to the backend of the route, at
\* the path of the route with the request's task_id, carrying the caller's
\* body unchanged; at most one outcome is ever awaited.
C12_OneForwardedPost ==
    (route \in PostRoutes /\ pc \in {"await", "done"} /\ ValidCredential(credentials)) =>
        /\ Len(calls) = 1
        /\ Len(outcomes) <= 1
        /\ calls[1].method = "POST"
        /\ calls[1].url =
              <<SERVICES[ForwardTarget(route, task_id)[1]]>> \o ForwardTarget(route, task_id)[2]
        /\ calls[1].json = payload

C12_Witness ==
    /\ route = "POST /tasks/{task_id}/comments"
    /\ pc = "done"
    /\ task_id = 2
    /\ outcomes = <<ConnectError>>
    /\ Len(calls) = 1
    /\ calls[1].url = <<"http://localhost:8005", "/tasks/", "2", "/comments">>
    /\ calls[1].json = PyDict([title |-> "T2", assignee_id |-> 1])

\* the answers of the creates that were answered 201
Created == {i \in DOMAIN create_log : create_log[i].response.status_code = 201}

\* the record of a store with the given id and owner (project or task)
Holds(listing, id, field, value) ==
    \E j \in DOMAIN listing : listing[j].id = id /\ listing[j][field] = value

\* C13: in the projects, tasks and comments services, every record a create
\* has answered with 201 and whose id no delete has been answered 204 for
\* since is in the listing of its collection (all projects, the tasks of its
\* project, the comments of its task) and, for projects and tasks, is what
\* GET by its id answers with, whatever was created, updated or deleted
\* in between.
C13_CreatedRecordVisible ==
    \A i \in Created :
        LET r == create_log[i].response.body IN
        ~create_log[i].deleted =>
            CASE service = "projects" ->
                    /\ \E j \in DOMAIN list_projects(PROJECTS_DB).body :
                          list_projects(PROJECTS_DB).body[j] = r
                    /\ get_project(PROJECTS_DB, r.id) = Answer(200, r)
              [] service = "tasks" ->
                    /\ Holds(list_tasks_by_project(TASKS_DB, r.project_id).body,
                             r.id, "project_id", r.project_id)
                    /\ get_task(TASKS_DB, r.id).status_code = 200
                    /\ get_task(TASKS_DB, r.id).body.id = r.id
                    /\ get_task(TASKS_DB, r.id).body.project_id = r.project_id
              [] service = "comments" ->
                    \E j \in DOMAIN list_comments_for_task(COMMENTS_DB, r.task_id).body :
                        list_comments_for_task(COMMENTS_DB, r.task_id).body[j] = r

C13_Witness ==
    /\ service = "tasks"
    /\ Len(create_log) = 2
    /\ create_log[1].response.status_code = 201
    /\ ~create_log[1].deleted
    /\ create_log[2].deleted
    /\ Len(TASKS_DB) = 2
    /\ get_task(TASKS_DB, create_log[1].response.body.id).body.status = TaskStatus_DONE
    /\ get_task(TASKS_DB, 1) = NotFound("Task not found")

\* the notification (user_id, message) is the one the create answered by
\* entry e schedules
NotificationOf(e, user_id, message) ==
    LET r == e.response.body IN
    IF service = "tasks"
    THEN /\ r.assignee_id # None
         /\ user_id = r.assignee_id
         /\ message = [template |-> "task assigned: {title}", title |-> r.title]
    ELSE /\ user_id = r.author_id
         /\ message = [template |-> "comment added to task {task_id}",
                       task_id |-> r.task_id]

\* C14: in the tasks and comments services every create is answered 201 with
\* a record that is in the store when the handler is over, and stays there
\* (until deleted) whatever the outcome of the notification; every
\* notification scheduled, waiting or ended is for a record already appended, to
\* its assignee (tasks: only when assignee_id is set) or its author
\* (comments).
C14_NotificationBestEffort ==
    service \in {"tasks", "comments"} =>
        /\ \A i \in DOMAIN create_log :
              /\ create_log[i].response.status_code = 201
              /\ create_log[i].stored
              /\ ~create_log[i].deleted =>
                    LET db == IF service = "tasks" THEN TASKS_DB ELSE COMMENTS_DB IN
                    \E j \in DOMAIN db : db[j].id = create_log[i].response.body.id
        /\ \A k \in DOMAIN background :
              \E i \in DOMAIN create_log :
                  create_log[i].stored
                  /\ NotificationOf(create_log[i], background[k].user_id,
                                    background[k].message)
        /\ \A k \in DOMAIN notifying :
              \E i \in DOMAIN create_log :
                  create_log[i].stored
                  /\ NotificationOf(create_log[i], notifying[k].json.user_id,
                                    notifying[k].json.message)
        /\ notification # None =>
              /\ notification.call # None
              /\ \E i \in DOMAIN create_log :
                    create_log[i].stored
                    /\ NotificationOf(create_log[i], notification.call.json.user_id,
                                      notification.call.json.message)

C14_Witness ==
    /\ service = "tasks"
    /\ Len(create_log) = 2
    /\ create_log[1].response.body.assignee_id = None
    /\ create_log[2].response.body.assignee_id = PyInt(2)
    /\ background = <<>>
    /\ notifying = <<>>
    /\ notification # None
    /\ notification.outcome = ReadTimeout
    /\ notification.printed = "Failed to send notification"
    /\ Len(TASKS_DB) = 5

\* C15 (as claimed): in the users service every create_user request that has
\* been answered was answered 201 with the row it added, or, its username or
\* email being that of a stored user, 400 with the table left as it was; no
\* two rows share a username or an email.
C15_DuplicateAnswered400 ==
    service = "users" =>
        /\ \A w \in DOMAIN workers :
              workers[w].pc = "done" =>
                 \/ /\ workers[w].response.status_code = 201
                    /\ \E i \in DOMAIN users_table :
                          users_table[i] = workers[w].response.body
                 \/ /\ workers[w].response.status_code = 400
                    /\ workers[w].response = already_exists
        /\ \A i, j \in DOMAIN users_table :
              i # j => /\ users_table[i].username # users_table[j].username
                       /\ users_table[i].email # users_table[j].email

\* the stores of the three in-memory services
Stores == <<TASKS_DB, PROJECTS_DB, COMMENTS_DB>>

\* C16: in each in-memory store no two records share an id, and the id of
\* every record a create answered with is greater than every id the store
\* held at that moment: the greatest of them plus one, or 1 when the store
\* was empty.
C16_IdsUniqueAndFresh ==
    /\ \A s \in DOMAIN Stores :
          \A i, j \in DOMAIN Stores[s] : i # j => Stores[s][i].id # Stores[s][j].id
    /\ \A i \in Created :
          LET id == create_log[i].response.body.id
              greatest == create_log[i].greatest_before
          IN /\ id > greatest
             /\ id = greatest + 1

C16_Witness ==
    /\ service = "tasks"
    /\ Len(create_log) = 2
    /\ create_log[1].greatest_before = 0
    /\ create_log[1].response.body.id = 1
    /\ create_log[2].greatest_before = 1
    /\ create_log[2].response.body.id = 2
    /\ Len(TASKS_DB) = 2

\* C17: when the client has logged in with a non-empty username and presents
\* the access_token it was given as Bearer <access_token>, the gateway's
\* dependency accepts it and the caller identity is exactly that username,
\* whatever the password was.
C17_LoginRoundTrip ==
    (/\ service = "auth"
     /\ login_request # None
     /\ login_request.username # <<>>
     /\ pc \in {"handler", "await", "done"}
     /\ credentials = [scheme |-> <<"B","e","a","r","e","r">>,
                       credentials |-> login_response.access_token]) =>
        /\ current_username = login_request.username
        /\ ~Rejected401

C17_Witness ==
    /\ service = "auth"
    /\ login_request = [username |-> <<"b">>, password |-> "q"]
    /\ pc = "handler"
    /\ route = "GET /me"
    /\ credentials # None
    /\ credentials.credentials = <<"t","o","k","e","n","_","f","o","r","_","b">>
    /\ current_username = <<"b">>

====
